---- MODULE Spec2Model ----
(***************************************************************************)
(* Checkout-to-payment reconciliation pipeline of the artwork marketplace  *)
(* backend (src/server/app): checkout initiation (OrderList.post), the     *)
(* gateway callback handler (DarajaCallback.post) with its order           *)
(* materialization, and the cart / catalogue operations they race with.    *)
(*                                                                         *)
(* The store is MySQL/InnoDB (config.py).  A handler is split into one     *)
(* action per stretch of code between two points where it touches the      *)
(* store: a read, a row lock, a commit or a rollback.  Uncommitted writes  *)
(* of a handler live in its process record until its commit.               *)
(* Money is counted in cents (DECIMAL(10,2)).                              *)
(***************************************************************************)
EXTENDS Integers, Sequences, FiniteSets, TLC

\* ------------------------------------------------------------------ bounds
MaxTx == 2          \* checkout initiations in one behaviour
MaxProcs == 2       \* callback invocations in one behaviour
MaxStock == 2       \* seeded stock of the better-stocked artwork

Artworks == {"a1", "a2"}
Users == {"u1", "u2"}
Buyers == {"u1"}                       \* the users who check out
Procs == 1..MaxProcs
Descs == {"accepted"}                  \* ResponseDescription of an accepted push
ResultDescs == {"result"}              \* ResultDesc of a callback
Receipts == {"R1"}
DeliveryOptions == {"d1"}              \* DeliveryOption rows
OptionIds == {"d1", "d0"}              \* delivery_option_id of a request
NoCrid == 0                            \* NULL checkout_request_id
NoTx == 0

\* ------------------------------------------------------------------ state
VARIABLES
    stock,          \* Artwork.stock_quantity, committed
    exists,         \* the Artwork row exists
    price,          \* Artwork.price, committed
    is_active,      \* Artwork.is_active
    artist_active,  \* Artist.is_active of the artwork's artist
    delivery,       \* the DeliveryOption row: [price, active]
    cart,           \* CartItem rows: user -> artwork -> quantity (0: no row)
    transactions,   \* PaymentTransaction rows, id = index
    orders,         \* committed Order rows with their OrderItems
    procs           \* callback invocations: position and session state

vars == <<stock, exists, price, is_active, artist_active, delivery,
          cart, transactions, orders, procs>>

catalogue == <<exists, price, is_active, artist_active, delivery>>

\* ------------------------------------------------------------------ helpers
PriceOf(a) == IF a = "a1" THEN 150 ELSE 200
\* Seeded stock_quantity: a1 is down to its last unit.
InitStock(a) == IF a = "a1" THEN 1 ELSE MaxStock
DeliveryFee == 200

final_states == {"successful", "failed_daraja", "cancelled_by_user",
                 "failed_processing_error", "failed_underpaid",
                 "failed_missing_receipt", "failed_timeout"}

TxIds == 1..Len(transactions)

RECURSIVE SeqSum(_)
SeqSum(s) == IF s = <<>> THEN 0 ELSE Head(s) + SeqSum(Tail(s))

Range(s) == {s[i] : i \in 1..Len(s)}

\* All orderings of a finite set, as sequences without repetition.
Perms(S) == {s \in [1..Cardinality(S) -> S] : Range(s) = S}

\* The request body of a callback, as far as the handler reads it.
\* shape: how far the body parses (lines 18-43), "null_metadata" for a body
\* whose CallbackMetadata is null; parses: Decimal(amount_paid_str) succeeds;
\* amount: its value in cents; receipt "": no MpesaReceiptNumber.
Payload(shape, crid, code, desc, receipt, parses, amount) ==
    [shape |-> shape, crid |-> crid, code |-> code, desc |-> desc,
     receipt |-> receipt, parses |-> parses, amount |-> amount]

NoPayload == Payload("none", NoCrid, "", "", "", FALSE, 0)

\* A callback invocation: its position (pc), its request (m), the
\* transaction its session loaded (tx, loaded_desc), the writes its session
\* has not committed (new_status, new_desc, pending stock of the locked
\* artworks), the row locks it holds (locked, txlock), its response (resp)
\* and the branch it took (path).
IdleProc == [pc |-> "idle", m |-> NoPayload, crid |-> NoCrid, tx |-> NoTx,
             new_status |-> "", new_desc |-> "", loaded_desc |-> "",
             idx |-> 0, locked |-> {}, pending |-> [a \in Artworks |-> 0],
             txlock |-> FALSE, resp |-> "none", path |-> "none"]

Init ==
    /\ stock = [a \in Artworks |-> InitStock(a)]
    /\ exists = [a \in Artworks |-> TRUE]
    /\ price = [a \in Artworks |-> PriceOf(a)]
    /\ is_active = [a \in Artworks |-> TRUE]
    /\ artist_active = [a \in Artworks |-> TRUE]
    /\ delivery = [price |-> DeliveryFee, active |-> TRUE]
    /\ cart = [u \in Users |-> [a \in Artworks |-> 0]]
    /\ transactions = <<>>
    /\ orders = <<>>
    /\ procs = [p \in Procs |-> IdleProc]

\* ------------------------------------------------------------------ cart
\* CartResource.post: add quantity_to_add of an artwork to the user's cart.
CartAdd(u, a, q) ==
    /\ exists[a]
    /\ stock[a] >= q
    /\ stock[a] >= cart[u][a] + q
    /\ cart' = [cart EXCEPT ![u][a] = @ + q]
    /\ UNCHANGED <<stock, catalogue, transactions, orders, procs>>

\* CartItemResource.delete: remove one line of the user's cart.
CartRemove(u, a) ==
    /\ cart[u][a] > 0
    /\ cart' = [cart EXCEPT ![u][a] = 0]
    /\ UNCHANGED <<stock, catalogue, transactions, orders, procs>>

\* Rows that hold a foreign key to artwork a (cart_items, order_items).
Referenced(a) ==
    \/ \E u \in Users : cart[u][a] > 0
    \/ \E i \in 1..Len(orders) :
          \E k \in 1..Len(orders[i].items) : orders[i].items[k].artwork_id = a

\* The callback invocation holding the FOR UPDATE lock of artwork a, or {}.
ArtworkLockHolders(a) == {p \in Procs : a \in procs[p].locked}

\* ArtworkDetail.delete: the DELETE fails on a referenced row (NOT NULL
\* foreign keys) and waits for a row lock.
ArtworkDelete(a) ==
    /\ exists[a]
    /\ ~Referenced(a)
    /\ ArtworkLockHolders(a) = {}
    /\ exists' = [exists EXCEPT ![a] = FALSE]
    /\ UNCHANGED <<stock, price, is_active, artist_active, delivery,
                   cart, transactions, orders, procs>>

\* Mutant: is_active is stored as the form asked.
TargetIsActive_AsAsked(target_stock, target_active) == target_active

\* `if target_stock_quantity > 0: target_is_active = True` of artwork.py
\* lines 163-164 and 275-276.
TargetIsActive(target_stock, target_active) ==
    target_stock > 0 \/ target_active

\* "Not sent" for a form field of an admin request.
Keep == -1

\* ArtworkDetail.patch with the fields price, stock_quantity and is_active
\* (Keep / "keep": the field is not in the form).  The UPDATE waits for the
\* row lock.
ArtworkPatch(a, new_price, new_stock, new_active) ==
    /\ exists[a]
    /\ ArtworkLockHolders(a) = {}
    /\ LET target_stock == IF new_stock = Keep THEN stock[a] ELSE new_stock
           target_active == IF new_active = "keep" THEN is_active[a]
                            ELSE new_active = "true"
       IN /\ ~(~artist_active[a] /\ target_active)
          /\ stock' = [stock EXCEPT ![a] = target_stock]
          /\ is_active' = [is_active EXCEPT ![a] =
                               TargetIsActive(target_stock, target_active)]
          /\ price' = [price EXCEPT ![a] =
                           IF new_price = Keep THEN @ ELSE new_price]
    /\ UNCHANGED <<exists, artist_active, delivery, cart, transactions,
                   orders, procs>>

\* Mutant: a deactivation leaves the stock as it is.
StockWhenDeactivated_Kept(quantity) == quantity

\* stock_quantity = 0 of a deactivation (artist.py line 133, artwork.py line
\* 415).
StockWhenDeactivated(quantity) == 0

\* ArtistDetail.patch with the field is_active, for the artist of artwork a:
\* a deactivation takes the artist's artworks off sale and zeroes their
\* stock, a reactivation reactivates them when asked to.
ArtistPatch(a, new_active, reactivate_artworks) ==
    /\ exists[a]
    /\ artist_active' = [artist_active EXCEPT ![a] = new_active]
    /\ IF artist_active[a] /\ ~new_active
       THEN IF is_active[a] \/ stock[a] > 0
            THEN /\ ArtworkLockHolders(a) = {}
                 /\ is_active' = [is_active EXCEPT ![a] = FALSE]
                 /\ stock' = [stock EXCEPT ![a] = StockWhenDeactivated(@)]
            ELSE UNCHANGED <<is_active, stock>>
       ELSE IF ~artist_active[a] /\ new_active /\ reactivate_artworks
                  /\ ~is_active[a]
            THEN /\ ArtworkLockHolders(a) = {}
                 /\ is_active' = [is_active EXCEPT ![a] = TRUE]
                 /\ stock' = stock
            ELSE UNCHANGED <<is_active, stock>>
    /\ UNCHANGED <<exists, price, delivery, cart, transactions, orders, procs>>

\* ArtworkList.post for the artist of a, with the fields stock_quantity and
\* is_active (Keep / "keep": not in the form, defaults 0 and true).
ArtworkCreate(a, new_stock, new_active) ==
    /\ ~exists[a]
    /\ LET target_stock == IF new_stock = Keep THEN 0 ELSE new_stock
           target_active == IF new_active = "keep" THEN TRUE
                            ELSE new_active = "true"
       IN /\ ~(~artist_active[a] /\ target_active)
          /\ exists' = [exists EXCEPT ![a] = TRUE]
          /\ stock' = [stock EXCEPT ![a] = target_stock]
          /\ is_active' = [is_active EXCEPT ![a] =
                               TargetIsActive(target_stock, target_active)]
          /\ price' = [price EXCEPT ![a] = PriceOf(a)]
    /\ UNCHANGED <<artist_active, delivery, cart, transactions, orders, procs>>

\* ArtworkBulkActions.patch: activate the listed artworks whose artist is
\* active, or deactivate the listed active ones and zero their stock.  The
\* UPDATEs wait for the row locks.
ArtworkBulk(ids, action) ==
    LET rows == {a \in ids : exists[a]}
        changed == IF action = "activate"
                   THEN {a \in rows : artist_active[a] /\ ~is_active[a]}
                   ELSE {a \in rows : is_active[a]}
    IN /\ action \in {"activate", "deactivate"}
       /\ \A a \in changed : ArtworkLockHolders(a) = {}
       /\ is_active' = [a \in Artworks |->
                            IF a \in changed THEN action = "activate"
                            ELSE is_active[a]]
       /\ stock' = [a \in Artworks |->
                        IF a \in changed /\ action = "deactivate"
                        THEN StockWhenDeactivated(stock[a]) ELSE stock[a]]
       /\ UNCHANGED <<exists, price, artist_active, delivery, cart,
                      transactions, orders, procs>>

\* DeliveryOptionDetail.patch with the fields price and active.
DeliveryPatch(new_price, new_active) ==
    /\ delivery' = [price |-> IF new_price = Keep THEN delivery.price
                              ELSE new_price,
                    active |-> IF new_active = "keep" THEN delivery.active
                               ELSE new_active = "true"]
    /\ UNCHANGED <<stock, exists, price, is_active, artist_active, cart,
                   transactions, orders, procs>>

\* ------------------------------------------------------------------ checkout
CartLines(u) == {a \in Artworks : cart[u][a] > 0}

\* Mutant: the price is written to the snapshot without its cents.
PriceStr_Whole(cents) == <<cents \div 100, 0>>

\* str(item.artwork.price) of a DECIMAL(10,2): the digits before and after
\* the point, as the snapshot's JSON text holds them.
PriceStr(cents) == <<cents \div 100, cents % 100>>

\* Decimal(str(item_data['price_at_purchase'])) of payment.py line 142.
DecimalOf(text) == text[1] * 100 + text[2]

\* item_details_for_transaction_snapshot, in the order the rows came back.
SnapshotOf(u, order) ==
    [k \in 1..Len(order) |->
        [artwork_id |-> order[k], quantity |-> cart[u][order[k]],
         price_at_purchase |-> PriceStr(price[order[k]])]]

\* The terms of cart_subtotal_decimal (line 94), from the live prices.
LineTotals(u, order) ==
    [k \in 1..Len(order) |-> price[order[k]] * cart[u][order[k]]]

\* Mutant: the artist's status is not looked at.
LineAcceptable_AnyArtist(u, a) ==
    /\ exists[a]
    /\ is_active[a]
    /\ stock[a] >= cart[u][a]

\* The per-line checks of OrderList.post (lines 79-92).
LineAcceptable(u, a) ==
    /\ exists[a]
    /\ is_active[a]
    /\ artist_active[a]
    /\ stock[a] >= cart[u][a]

\* OrderList.post up to the commit of the new PaymentTransaction row.
InitiateCheckout(u, order, option) ==
    /\ Len(transactions) < MaxTx
    /\ CartLines(u) # {}
    /\ order \in Perms(CartLines(u))
    /\ option \in DeliveryOptions
    /\ delivery.active
    /\ \A a \in CartLines(u) : LineAcceptable(u, a)
    /\ LET snap == SnapshotOf(u, order)
           subtotal == SeqSum(LineTotals(u, order))
           total == subtotal + delivery.price
       IN /\ subtotal >= 0
          /\ total > 0
          /\ transactions' = Append(transactions,
                [status |-> "pending_stk_initiation",
                 checkout_request_id |-> NoCrid,
                 user_id |-> u, cart_id |-> u,
                 amount |-> total,
                 snapshot |-> snap,
                 selected_delivery_option_id |-> option,
                 applied_delivery_fee |-> delivery.price,
                 daraja_response_description |-> ""])
    /\ UNCHANGED <<stock, catalogue, cart, orders, procs>>

\* OrderList.post after initiate_stk_push returned: the gateway rejected the
\* push, accepted it without an id, or accepted it with a fresh id.
GatewayRespond(t, outcome, d) ==
    /\ t \in TxIds
    /\ transactions[t].status = "pending_stk_initiation"
    /\ outcome \in {"rejected", "no_id", "accepted"}
    /\ transactions' =
         [transactions EXCEPT ![t] =
            CASE outcome = "rejected" ->
                   [@ EXCEPT !.status = "failed_stk_initiation",
                             !.daraja_response_description = "stk_error"]
              [] outcome = "no_id" ->
                   [@ EXCEPT !.status = "failed_stk_missing_id",
                             !.daraja_response_description = "stk_no_id"]
              [] OTHER ->
                   [@ EXCEPT !.status = "pending_confirmation",
                             !.checkout_request_id = t,
                             !.daraja_response_description = d]]
    /\ UNCHANGED <<stock, catalogue, cart, orders, procs>>

\* ------------------------------------------------------------------ callback
ResultCodes == {"0", "1", "1032", "1037", "2001", "-1"}   \* "-1": none sent

\* Mutant: a timed-out push is filed with the other gateway failures.
FailureStatus_NoTimeout(code) ==
    IF code \in {"1", "1032"} THEN "cancelled_by_user" ELSE "failed_daraja"

\* The status a non-success ResultCode maps to (payment.py lines 187-194).
FailureStatus(code) ==
    CASE code = "1" -> "cancelled_by_user"
      [] code = "1032" -> "cancelled_by_user"
      [] code = "1037" -> "failed_timeout"
      [] OTHER -> "failed_daraja"

\* The total of the checkout the gateway issued id c for (ids are issued per
\* push, see GatewayRespond); 1 for an id it never issued.
FullAmount(c) == IF c \in TxIds THEN transactions[c].amount ELSE 1

\* What the gateway may post.  The fields a branch never reads are left at
\* one value.
Payloads ==
    {Payload(sh, 1, "0", "result", "", TRUE, 0) : sh \in {"empty", "no_body", "no_crid"}}
    \cup {Payload("ok", c, code, d, "", TRUE, 0) :
            c \in 1..MaxTx, code \in ResultCodes \ {"0"}, d \in ResultDescs}
    \cup {Payload("ok", c, "0", d, "", FALSE, 0) :
            c \in 1..MaxTx, d \in ResultDescs}
    \cup {Payload("ok", c, "0", d, "", TRUE, FullAmount(c) * whole) :
            c \in 1..MaxTx, d \in ResultDescs, whole \in {0, 1}}
    \cup {Payload("ok", c, "0", d, r, FALSE, 0) :
            c \in 1..MaxTx, d \in ResultDescs, r \in Receipts}
    \cup {Payload("ok", c, "0", d, r, TRUE, FullAmount(c) - short) :
            c \in 1..MaxTx, d \in ResultDescs, r \in Receipts, short \in {0, 1}}
    \cup {Payload("ok", c, "0", d, r, TRUE, -1) :
            c \in 1..MaxTx, d \in ResultDescs, r \in Receipts}

\* Mutant: the callback is matched on the transaction id.
Lookup_ById(crid) == {t \in TxIds : t = crid}

\* PaymentTransaction.query.filter_by(checkout_request_id=...).first()
Lookup(crid) == {t \in TxIds : transactions[t].checkout_request_id = crid}

\* Mutant: only a successful transaction is latched.
AlreadyProcessed_OnlySuccess(status) == status = "successful"

\* The test `transaction.status in final_states` of the handler.
AlreadyProcessed(status) == status \in final_states

\* The handler returned its acknowledgement; the session is gone.
Done(p, path) ==
    [IdleProc EXCEPT !.pc = "done", !.crid = procs[p].crid,
                     !.tx = procs[p].tx, !.path = path, !.resp = "ack"]

\* An exception left the handler: the framework answers HTTP 500 and the
\* session is discarded without a commit.
Crashed(t, m) ==
    [IdleProc EXCEPT !.pc = "done", !.crid = m.crid, !.tx = t,
                     !.path = "crashed", !.resp = "error"]

\* Mutant: a success callback is taken at its word without a receipt.
ReceiptMissing_Ignored(receipt) == FALSE

\* The test `not mpesa_receipt` of line 71.
ReceiptMissing(receipt) == receipt = ""

\* Mutant: the paid amount is never compared with the total.
Underpaid_Never(paid, due) == FALSE

\* The comparison of line 96.
Underpaid(paid, due) == paid < due

\* The branch a found, non-final transaction takes (lines 58-101): the status
\* and description the session will write, or the materialization.
Branch(t, m) ==
    LET base == [IdleProc EXCEPT !.tx = t, !.m = m, !.crid = m.crid,
                    !.loaded_desc = transactions[t].daraja_response_description,
                    !.new_desc = m.desc, !.path = "status",
                    !.pc = "commit_status"]
    IN IF m.code # "0"
       THEN [base EXCEPT !.new_status = FailureStatus(m.code)]
       ELSE IF m.shape = "null_metadata"
       THEN Crashed(t, m)
       ELSE IF ReceiptMissing(m.receipt)
       THEN [base EXCEPT !.new_status = "failed_missing_receipt",
                         !.new_desc = "receipt_missing"]
       ELSE IF ~m.parses
       THEN [base EXCEPT !.new_status = "failed_processing_error",
                         !.new_desc = "invalid_amount"]
       ELSE IF Underpaid(m.amount, transactions[t].amount)
       THEN [base EXCEPT !.new_status = "failed_underpaid"]
       ELSE [base EXCEPT !.pc = "flush", !.path = "materialize",
                         !.new_status = "successful"]

\* DarajaCallback.post from the request to the end of its in-memory
\* decisions (lines 15-101): parse, look the transaction up, test for a
\* final state, choose the branch.
CbBegin(p, m) ==
    /\ procs[p].pc = "idle"
    /\ \A q \in Procs : q < p => procs[q].pc # "idle"
    /\ procs' = [procs EXCEPT ![p] =
          IF m.shape \notin {"ok", "null_metadata"}
          THEN [IdleProc EXCEPT !.pc = "done", !.path = "malformed",
                                !.resp = "ack"]
          ELSE IF Lookup(m.crid) = {}
          THEN [IdleProc EXCEPT !.pc = "done", !.path = "unmatched",
                                !.crid = m.crid, !.resp = "ack"]
          ELSE LET t == CHOOSE x \in Lookup(m.crid) : TRUE
               IN IF AlreadyProcessed(transactions[t].status)
                  THEN [IdleProc EXCEPT !.pc = "done", !.path = "final",
                                        !.crid = m.crid, !.tx = t,
                                        !.resp = "ack"]
                  ELSE Branch(t, m)]
    /\ UNCHANGED <<stock, catalogue, cart, transactions, orders>>

\* The invocations holding the row lock of PaymentTransaction t.
TxLockHolders(t) == {q \in Procs : procs[q].tx = t /\ procs[q].txlock}

\* The session's UPDATE of the row: only the attributes that differ from
\* the loaded ones are written.
WriteTx(row, p, status) ==
    [row EXCEPT !.status = status,
                !.daraja_response_description =
                    IF procs[p].new_desc # procs[p].loaded_desc
                    THEN procs[p].new_desc ELSE @]

\* db.session.commit() of a branch that only sets the status (lines 73-99,
\* 187-201).
CbCommitStatus(p) ==
    /\ procs[p].pc = "commit_status"
    /\ TxLockHolders(procs[p].tx) = {}
    /\ transactions' = [transactions EXCEPT ![procs[p].tx] =
                            WriteTx(@, p, procs[p].new_status)]
    /\ procs' = [procs EXCEPT ![p] = Done(p, "status")]
    /\ UNCHANGED <<stock, catalogue, cart, orders>>

\* db.session.commit() of a status-only branch raises (the store refused or
\* lost the transaction).  Lines 75-79, 88-92 and 196-200 catch it, roll back
\* and go on to the acknowledgement; line 99 is not inside a try.
CbCommitStatusFails(p) ==
    /\ procs[p].pc = "commit_status"
    /\ procs' = [procs EXCEPT ![p] =
           IF procs[p].new_status = "failed_underpaid"
           THEN Crashed(procs[p].tx, procs[p].m)
           ELSE Done(p, "status_failed")]
    /\ UNCHANGED <<stock, catalogue, cart, transactions, orders>>

\* Lines 101-120: Order(...) added and flushed.  The flush also sends the
\* UPDATE of the description set at line 58, which takes the row lock of the
\* transaction until commit or rollback.
CbFlush(p) ==
    /\ procs[p].pc = "flush"
    /\ IF procs[p].new_desc # procs[p].loaded_desc
       THEN /\ TxLockHolders(procs[p].tx) = {}
            /\ procs' = [procs EXCEPT ![p].pc = "items", ![p].idx = 1,
                                      ![p].txlock = TRUE]
       ELSE procs' = [procs EXCEPT ![p].pc = "items", ![p].idx = 1]
    /\ UNCHANGED <<stock, catalogue, cart, transactions, orders>>

CurrentItem(p) == transactions[procs[p].tx].snapshot[procs[p].idx]

\* db.session.rollback(): locks released, uncommitted writes dropped.
RolledBack(p, reason) ==
    [procs[p] EXCEPT !.pc = "recover", !.new_desc = reason, !.idx = 0,
                     !.locked = {}, !.pending = [a \in Artworks |-> 0],
                     !.txlock = FALSE]

\* The stock the commit leaves: the session's uncommitted values.
CommittedStock(p) ==
    [a \in Artworks |-> IF a \in procs[p].locked
                        THEN procs[p].pending[a] ELSE stock[a]]

\* Mutant: the rollback leaves the decrements made so far in the store.
StockAfterRollback_Partial(p) == CommittedStock(p)

\* The committed stock after db.session.rollback() (lines 158, 172): the
\* session's decrements are dropped.
StockAfterRollback(p) == stock

\* Mutant: the artwork row is read without with_for_update().
RowLockGranted_NoLock(a, p) == TRUE

\* with_for_update() of line 125: the row lock is free or already p's.
RowLockGranted(a, p) == ArtworkLockHolders(a) \subseteq {p}

\* Mutant: no stock re-check before the decrement.
StockSuffices_Unchecked(a, quantity) == TRUE

\* The stock re-check of line 131.
StockSuffices(a, quantity) == stock[a] >= quantity

\* Mutant: each OrderItem takes one unit off the stock.
Decrement_ByOne(quantity_in_stock, quantity) == quantity_in_stock - 1

\* artwork.stock_quantity -= item_quantity of line 135.
Decrement(quantity_in_stock, quantity) == quantity_in_stock - quantity

\* One pass of the loop of lines 124-144: lock the artwork row, re-check the
\* stock, decrement it in the session and add the OrderItem.
CbItem(p) ==
    /\ procs[p].pc = "items"
    /\ LET item == CurrentItem(p)
           a == item.artwork_id
           last == procs[p].idx = Len(transactions[procs[p].tx].snapshot)
       IN /\ RowLockGranted(a, p)
          /\ IF ~exists[a] \/ ~StockSuffices(a, item.quantity)
             THEN /\ procs' = [procs EXCEPT ![p] =
                                   RolledBack(p, "order_creation_error")]
                  /\ stock' = StockAfterRollback(p)
             ELSE /\ procs' = [procs EXCEPT
                         ![p].locked = @ \cup {a},
                         ![p].pending[a] = Decrement(stock[a], item.quantity),
                         ![p].idx = @ + 1,
                         ![p].pc = IF last THEN "commit" ELSE "items"]
                  /\ stock' = stock
    /\ UNCHANGED <<catalogue, cart, transactions, orders>>

\* Mutant: the Order is priced without the delivery fee.
OrderTotal_ItemsOnly(t) ==
    transactions[t].amount - transactions[t].applied_delivery_fee

\* total_price=transaction.amount of line 112.
OrderTotal(t) == transactions[t].amount

\* Mutant: the OrderItem takes the artwork's live price.
ItemPrice_Live(item) == price[item.artwork_id]

\* price_at_purchase of line 142, parsed from the snapshot.
ItemPrice(item) == DecimalOf(item.price_at_purchase)

\* NULL delivery_option_id of an Order.
NoOption == "none"

\* The Order and OrderItems the session holds (lines 110-144); the columns
\* Order(...) does not name take their defaults (models.py lines 136-137).
NewOrder(p) ==
    LET t == procs[p].tx
    IN [payment_transaction_id |-> t,
        user_id |-> transactions[t].user_id,
        total_price |-> OrderTotal(t),
        status |-> "paid",
        payment_gateway_ref |-> procs[p].m.receipt,
        delivery_option_id |-> NoOption,
        delivery_fee |-> 0,
        items |-> [k \in 1..Len(transactions[t].snapshot) |->
                     [artwork_id |-> transactions[t].snapshot[k].artwork_id,
                      quantity |-> transactions[t].snapshot[k].quantity,
                      price_at_purchase |->
                          ItemPrice(transactions[t].snapshot[k])]]]

\* Mutant: only the lines of the snapshot are deleted from the cart.
CartAfterOrder_SnapshotLines(t) ==
    [cart EXCEPT ![transactions[t].cart_id] =
        [a \in Artworks |->
            IF \E k \in 1..Len(transactions[t].snapshot) :
                   transactions[t].snapshot[k].artwork_id = a
            THEN 0 ELSE @[a]]]

\* CartItem.query.filter_by(cart_id=transaction.cart_id).delete() of line
\* 149; the range it locks keeps new rows of that cart out until the commit.
CartAfterOrder(t) ==
    [cart EXCEPT ![transactions[t].cart_id] = [a \in Artworks |-> 0]]

\* Lines 148-155: delete the cart's rows, set successful, commit.
CbCommit(p) ==
    /\ procs[p].pc = "commit"
    /\ TxLockHolders(procs[p].tx) \subseteq {p}
    /\ orders' = Append(orders, NewOrder(p))
    /\ stock' = CommittedStock(p)
    /\ cart' = CartAfterOrder(procs[p].tx)
    /\ transactions' = [transactions EXCEPT ![procs[p].tx] =
                            WriteTx(@, p, "successful")]
    /\ procs' = [procs EXCEPT ![p] = Done(p, "materialized")]
    /\ UNCHANGED catalogue

\* The invocations holding the lock that p's next statement waits for.
WaitsFor(p) ==
    LET r == procs[p]
    IN CASE r.pc = "items" -> ArtworkLockHolders(CurrentItem(p).artwork_id) \ {p}
         [] r.pc = "commit" -> TxLockHolders(r.tx) \ {p}
         [] r.pc = "flush" /\ r.new_desc # r.loaded_desc -> TxLockHolders(r.tx)
         [] r.pc \in {"commit_status", "recover"} -> TxLockHolders(r.tx)
         [] OTHER -> {}

RECURSIVE WaitClosure(_, _)
WaitClosure(S, n) ==
    IF n = 0 THEN S
    ELSE WaitClosure(S \cup UNION {WaitsFor(q) : q \in S}, n - 1)

Deadlocked(p) == p \in WaitClosure(WaitsFor(p), MaxProcs)

\* InnoDB breaks a lock cycle by failing one waiter's statement; the handler
\* catches it in `except Exception` (lines 171-173) and rolls back.
CbDeadlock(p) ==
    /\ procs[p].pc \in {"items", "commit"}
    /\ Deadlocked(p)
    /\ procs' = [procs EXCEPT ![p] =
                     RolledBack(p, "unexpected_order_creation_error")]
    /\ stock' = StockAfterRollback(p)
    /\ UNCHANGED <<catalogue, cart, transactions, orders>>

\* Lines 160-165 and 174-179: after the rollback, load the transaction again
\* and mark it failed_processing_error with the reason.
CbRecover(p) ==
    /\ procs[p].pc = "recover"
    /\ TxLockHolders(procs[p].tx) = {}
    /\ transactions' = [transactions EXCEPT ![procs[p].tx] =
           [@ EXCEPT !.status = "failed_processing_error",
                     !.daraja_response_description = procs[p].new_desc]]
    /\ procs' = [procs EXCEPT ![p] = Done(p, "materialize_failed")]
    /\ UNCHANGED <<stock, catalogue, cart, orders>>

Next ==
    \/ \E u \in Buyers, a \in Artworks, q \in 1..MaxStock : CartAdd(u, a, q)
    \/ \E u \in Buyers, option \in OptionIds :
          \E order \in Perms(CartLines(u)) : InitiateCheckout(u, order, option)
    \/ \E t \in TxIds, o \in {"rejected", "no_id", "accepted"}, d \in Descs :
          GatewayRespond(t, o, d)
    \/ \E p \in Procs : \E m \in Payloads : CbBegin(p, m)
    \/ \E p \in Procs : CbCommitStatus(p)
    \/ \E p \in Procs : CbFlush(p)
    \/ \E p \in Procs : CbItem(p)
    \/ \E p \in Procs : CbCommit(p)
    \/ \E p \in Procs : CbDeadlock(p)
    \/ \E p \in Procs : CbRecover(p)

Spec == Init /\ [][Next]_vars

\* Callbacks that report the full amount with a receipt.
PaidInFull ==
    {Payload("ok", c, "0", d, r, TRUE, FullAmount(c)) :
        c \in 1..MaxTx, d \in ResultDescs, r \in Receipts}

\* The pipeline under catalogue and cart churn: users also remove cart lines
\* and the admin deletes artworks, while every callback reports a paid-in-full
\* success.
NextCatalogue ==
    \/ \E u \in Buyers, a \in Artworks, q \in 1..MaxStock : CartAdd(u, a, q)
    \/ \E u \in Buyers, a \in Artworks : CartRemove(u, a)
    \/ \E a \in Artworks : ArtworkDelete(a)
    \/ \E u \in Buyers, option \in OptionIds :
          \E order \in Perms(CartLines(u)) : InitiateCheckout(u, order, option)
    \/ \E t \in TxIds, d \in Descs : GatewayRespond(t, "accepted", d)
    \/ \E p \in Procs : \E m \in PaidInFull : CbBegin(p, m)
    \/ \E p \in Procs : CbFlush(p)
    \/ \E p \in Procs : CbItem(p)
    \/ \E p \in Procs : CbCommit(p)
    \/ \E p \in Procs : CbDeadlock(p)
    \/ \E p \in Procs : CbRecover(p)

SpecCatalogue == Init /\ [][NextCatalogue]_vars

\* The pipeline with a second user who fills a cart of their own; every
\* callback reports a paid-in-full success.
NextCarts ==
    \/ \E u \in Users, a \in Artworks, q \in 1..MaxStock : CartAdd(u, a, q)
    \/ \E u \in Buyers, option \in OptionIds :
          \E order \in Perms(CartLines(u)) : InitiateCheckout(u, order, option)
    \/ \E t \in TxIds, d \in Descs : GatewayRespond(t, "accepted", d)
    \/ \E p \in Procs : \E m \in PaidInFull : CbBegin(p, m)
    \/ \E p \in Procs : CbFlush(p)
    \/ \E p \in Procs : CbItem(p)
    \/ \E p \in Procs : CbCommit(p)
    \/ \E p \in Procs : CbDeadlock(p)
    \/ \E p \in Procs : CbRecover(p)

SpecCarts == Init /\ [][NextCarts]_vars

\* Callbacks that end in a status-only branch, and success callbacks whose
\* CallbackMetadata is null.
StatusOnly ==
    (Payloads \ PaidInFull)
    \cup {Payload("null_metadata", c, "0", d, "", TRUE, 0) :
            c \in 1..MaxTx, d \in ResultDescs}

\* The status-only branches of the handler against a store whose commits
\* can fail.
NextFaults ==
    \/ \E u \in Buyers, a \in Artworks, q \in 1..MaxStock : CartAdd(u, a, q)
    \/ \E u \in Buyers, option \in OptionIds :
          \E order \in Perms(CartLines(u)) : InitiateCheckout(u, order, option)
    \/ \E t \in TxIds, d \in Descs : GatewayRespond(t, "accepted", d)
    \/ \E p \in Procs : \E m \in StatusOnly : CbBegin(p, m)
    \/ \E p \in Procs : CbCommitStatus(p)
    \/ \E p \in Procs : CbCommitStatusFails(p)

SpecFaults == Init /\ [][NextFaults]_vars

\* Prices an admin sets while checkouts are in flight: a raised artwork
\* price, and the fee of the seeded pick-up option.
RaisedPrice(a) == PriceOf(a) + 125
Waived == 0

\* Checkout initiation against a catalogue under administration: artworks
\* are given away, sold out, withdrawn or restocked, artists deactivated, the
\* delivery option waived or closed.
NextCheckout ==
    \/ \E u \in Buyers, a \in Artworks, q \in 1..MaxStock : CartAdd(u, a, q)
    \/ \E a \in Artworks : ArtworkPatch(a, Waived, Keep, "keep")
    \/ \E a \in Artworks : ArtworkPatch(a, Keep, 0, "keep")
    \/ \E a \in Artworks : ArtworkPatch(a, Keep, 0, "false")
    \/ \E a \in Artworks : ArtworkPatch(a, Keep, InitStock(a), "keep")
    \/ \E a \in Artworks : ArtistPatch(a, FALSE, FALSE)
    \/ DeliveryPatch(Waived, "keep")
    \/ DeliveryPatch(Keep, "false")
    \/ \E u \in Buyers, option \in OptionIds :
          \E order \in Perms(CartLines(u)) : InitiateCheckout(u, order, option)

SpecCheckout == Init /\ [][NextCheckout]_vars

\* The pipeline while the admin reprices artworks and the delivery option
\* and users add to their carts; every callback reports a paid-in-full
\* success.
NextPricing ==
    \/ \E u \in Buyers, a \in Artworks, q \in 1..MaxStock : CartAdd(u, a, q)
    \/ \E a \in Artworks : ArtworkPatch(a, RaisedPrice(a), Keep, "keep")
    \/ DeliveryPatch(Waived, "keep")
    \/ \E u \in Buyers, option \in OptionIds :
          \E order \in Perms(CartLines(u)) : InitiateCheckout(u, order, option)
    \/ \E t \in TxIds, d \in Descs : GatewayRespond(t, "accepted", d)
    \/ \E p \in Procs : \E m \in PaidInFull : CbBegin(p, m)
    \/ \E p \in Procs : CbFlush(p)
    \/ \E p \in Procs : CbItem(p)
    \/ \E p \in Procs : CbCommit(p)
    \/ \E p \in Procs : CbDeadlock(p)
    \/ \E p \in Procs : CbRecover(p)

SpecPricing == Init /\ [][NextPricing]_vars
\* ------------------------------------------------------------------ claims
\* Every state but the two pending ones is terminal (spec, section 4.1).
TerminalStates == final_states \cup {"failed_stk_initiation"}

OrdersOf(t) == {i \in 1..Len(orders) : orders[i].payment_transaction_id = t}

\* The invocation p took a step.
Stepped(p) == procs'[p] # procs[p]

Store == <<transactions, orders, stock, cart>>

\* C1: once a transaction's status is terminal, no step changes it.
C1_TerminalStatusIsFinal ==
    [][\A t \in TxIds :
          transactions[t].status \in TerminalStates
              => transactions'[t].status = transactions[t].status]_vars

\* C2: an invocation that reaches its write when the transaction is already
\* terminal changes nothing: only one invocation performs the transition.
C2_OnlyOneInvocationWins ==
    [][\A p \in Procs :
          (/\ Stepped(p)
           /\ procs[p].pc \in {"commit_status", "commit", "recover"}
           /\ transactions[procs[p].tx].status \in TerminalStates)
              => UNCHANGED Store]_vars

\* C3: an Order referencing transaction t exists iff t is successful.
C3_OrderIffSuccessful ==
    \A t \in TxIds : (OrdersOf(t) # {}) <=> (transactions[t].status = "successful")

\* C4: at most one Order references any transaction.
C4_MaterializedAtMostOnce ==
    \A t \in TxIds : Cardinality(OrdersOf(t)) <= 1

\* C5: stock_quantity is never negative, in the store or in a session; a
\* session's decrement stands for a re-checked stock read under the row lock,
\* which one invocation holds at a time.
SnapshotQuantity(t, a) ==
    SeqSum([k \in 1..Len(transactions[t].snapshot) |->
              IF transactions[t].snapshot[k].artwork_id = a
              THEN transactions[t].snapshot[k].quantity ELSE 0])

C5_StockNeverNegative ==
    /\ \A a \in Artworks : stock[a] >= 0
    /\ \A p \in Procs : \A a \in procs[p].locked :
          /\ ArtworkLockHolders(a) = {p}
          /\ procs[p].pending[a] >= 0
          /\ procs[p].pending[a] = stock[a] - SnapshotQuantity(procs[p].tx, a)

\* A materialization was refused by the re-check after the stock ran out.
C5_Witness ==
    \E p \in Procs : \E a \in Artworks :
        /\ procs[p].pc = "recover"
        /\ procs[p].new_desc = "order_creation_error"
        /\ SnapshotQuantity(procs[p].tx, a) > 0
        /\ stock[a] = 0
        /\ Len(orders) > 0

\* C6: two transactions for the last unit of one artwork, one paid-in-full
\* callback each: one is successful with one Order, the other is
\* failed_processing_error with none, and the stock is 0.
SingleUnitOf(t, a) ==
    /\ Len(transactions[t].snapshot) = 1
    /\ transactions[t].snapshot[1].artwork_id = a
    /\ transactions[t].snapshot[1].quantity = 1

\* The invocations that found transaction t not yet final.
Attempts(t) == {p \in Procs : procs[p].tx = t /\ procs[p].path # "final"}

Materializations(t) ==
    {p \in Attempts(t) : procs[p].path \in {"materialized", "materialize_failed"}}

LastUnitRace(a, t1, t2) ==
    /\ InitStock(a) = 1
    /\ t1 # t2
    /\ SingleUnitOf(t1, a) /\ SingleUnitOf(t2, a)
    /\ Cardinality(Attempts(t1)) = 1 /\ Materializations(t1) = Attempts(t1)
    /\ Cardinality(Attempts(t2)) = 1 /\ Materializations(t2) = Attempts(t2)
    /\ \A t \in TxIds \ {t1, t2} : SnapshotQuantity(t, a) > 0 => OrdersOf(t) = {}

C6_LastUnitRace ==
    \A a \in Artworks : \A t1, t2 \in TxIds :
        LastUnitRace(a, t1, t2) =>
            /\ stock[a] = 0
            /\ \E w \in {t1, t2} : \E l \in {t1, t2} \ {w} :
                  /\ transactions[w].status = "successful"
                  /\ Cardinality(OrdersOf(w)) = 1
                  /\ transactions[l].status = "failed_processing_error"
                  /\ OrdersOf(l) = {}

C6_Witness ==
    \E a \in Artworks : \E t1, t2 \in TxIds : LastUnitRace(a, t1, t2)

\* C7: a materialization that fails changes no Order, no stock and no cart
\* line at any of its steps, and ends with the transaction in
\* failed_processing_error with the reason recorded.
FailureReasons == {"order_creation_error", "unexpected_order_creation_error"}

C8_SecondHandlingIsNoOp ==
    [][\A p \in Procs : \A t \in TxIds :
          (/\ procs[p].pc = "idle" /\ Stepped(p)
           /\ procs'[p].crid # NoCrid
           /\ transactions[t].checkout_request_id = procs'[p].crid
           /\ transactions[t].status \in TerminalStates
           /\ \E q \in Procs : procs[q].pc = "done" /\ procs[q].tx = t)
              => /\ procs'[p].pc = "done"
                 /\ procs'[p].resp = "ack"
                 /\ UNCHANGED Store]_vars

C8_Witness ==
    \E p, q \in Procs :
        /\ p # q
        /\ procs[q].pc = "done"
        /\ procs[q].path \in {"status", "materialized", "materialize_failed"}
        /\ procs[p].path = "final"
        /\ procs[p].tx = procs[q].tx

\* C9: a callback whose correlation id is stored on no transaction is
\* acknowledged at once and changes nothing.
C9_UnmatchedCallbackIsNoOp ==
    [][\A p \in Procs :
          (/\ procs[p].pc = "idle" /\ Stepped(p)
           /\ procs'[p].crid # NoCrid
           /\ \A t \in TxIds :
                 transactions[t].checkout_request_id # procs'[p].crid)
              => /\ procs'[p].pc = "done"
                 /\ procs'[p].resp = "ack"
                 /\ UNCHANGED Store]_vars

\* An unmatched callback carried the id of a transaction still without one.
C9_Witness ==
    \E p \in Procs :
        /\ procs[p].path = "unmatched"
        /\ procs[p].crid \in TxIds
        /\ transactions[procs[p].crid].checkout_request_id = NoCrid

\* C10: a success callback with a receipt that reports less than the amount
\* only sets failed_underpaid: no Order, no stock or cart change.
ReportsUnderpaid(r) ==
    /\ r.tx # NoTx
    /\ r.m.shape = "ok" /\ r.m.code = "0" /\ r.m.receipt # "" /\ r.m.parses
    /\ r.m.amount < transactions[r.tx].amount

C10_UnderpaidFails ==
    [][\A p \in Procs :
          Stepped(p) =>
              /\ ReportsUnderpaid(procs'[p]) => procs'[p].pc = "commit_status"
              /\ ReportsUnderpaid(procs[p]) =>
                    /\ procs'[p].pc = "done"
                    /\ transactions'[procs[p].tx].status = "failed_underpaid"
                    /\ UNCHANGED <<orders, stock, cart>>]_vars

C10_Witness ==
    \E t \in TxIds :
        /\ transactions[t].status = "failed_underpaid"
        /\ OrdersOf(t) = {}
        /\ CartLines(transactions[t].cart_id) # {}
        /\ \A a \in Artworks : stock[a] = InitStock(a)

\* C11: a success-coded callback without a receipt identifier only sets
\* failed_missing_receipt, whatever amount it reports: no Order, no stock or
\* cart change.
ReportsNoReceipt(r) ==
    /\ r.tx # NoTx
    /\ r.m.shape = "ok" /\ r.m.code = "0" /\ r.m.receipt = ""

ReportsInvalidAmount(r) ==
    /\ r.tx # NoTx
    /\ r.m.shape = "ok" /\ r.m.code = "0" /\ r.m.receipt # ""
    /\ (~r.m.parses \/ r.m.amount < 0)

C12_InvalidAmountFails ==
    [][\A p \in Procs :
          (Stepped(p) /\ ReportsInvalidAmount(procs[p])) =>
              /\ procs'[p].pc = "done"
              /\ transactions'[procs[p].tx].status = "failed_processing_error"
              /\ UNCHANGED orders]_vars

\* C13: a status only changes along the edges of the state diagram and only
\* takes one of its nine values.
DiagramStates ==
    {"pending_stk_initiation", "pending_confirmation"} \cup TerminalStates

DiagramEdges ==
    {<<"pending_stk_initiation", "failed_stk_initiation">>,
     <<"pending_stk_initiation", "pending_confirmation">>}
    \cup {<<"pending_confirmation", s>> : s \in final_states}

C13_StatusFollowsDiagram ==
    [][/\ \A t \in 1..Len(transactions') :
             transactions'[t].status \in DiagramStates
       /\ \A t \in TxIds :
             \/ transactions'[t].status = transactions[t].status
             \/ <<transactions[t].status, transactions'[t].status>>
                    \in DiagramEdges]_vars

\* C14: a transaction's amount is the total of its snapshot plus its locked
\* delivery fee, and amount, snapshot and fee never change afterwards.
SnapshotTotal(row) ==
    SeqSum([k \in 1..Len(row.snapshot) |->
              DecimalOf(row.snapshot[k].price_at_purchase)
                  * row.snapshot[k].quantity])

C14_AmountFrozen ==
    [][/\ \A t \in 1..Len(transactions') :
             transactions'[t].amount =
                 SnapshotTotal(transactions'[t])
                     + transactions'[t].applied_delivery_fee
       /\ \A t \in TxIds :
             /\ transactions'[t].amount = transactions[t].amount
             /\ transactions'[t].snapshot = transactions[t].snapshot
             /\ transactions'[t].applied_delivery_fee =
                    transactions[t].applied_delivery_fee]_vars

\* Price, delivery fee and cart have all moved away from a transaction.
C14_Witness ==
    \E t \in TxIds : \E k \in 1..Len(transactions[t].snapshot) :
        LET item == transactions[t].snapshot[k]
        IN /\ transactions[t].applied_delivery_fee # delivery.price
           /\ DecimalOf(item.price_at_purchase) # price[item.artwork_id]
           /\ cart[transactions[t].cart_id][item.artwork_id] # item.quantity

\* C15: for a successful transaction and its Order, the items' total plus
\* the transaction's locked delivery fee is the Order's total_price, which is
\* the transaction's amount.
ItemsTotal(order) ==
    SeqSum([k \in 1..Len(order.items) |->
              order.items[k].quantity * order.items[k].price_at_purchase])

C15_OrderTotals ==
    \A t \in TxIds : \A i \in OrdersOf(t) :
        transactions[t].status = "successful" =>
            /\ ItemsTotal(orders[i]) + transactions[t].applied_delivery_fee
                   = orders[i].total_price
            /\ orders[i].total_price = transactions[t].amount

\* A two-line Order with a delivery fee, after prices moved.
C15_Witness ==
    \E t \in TxIds : \E i \in OrdersOf(t) :
        /\ transactions[t].status = "successful"
        /\ Len(orders[i].items) = 2
        /\ transactions[t].applied_delivery_fee > 0
        /\ \E a \in Artworks : price[a] # PriceOf(a)

\* C16: the OrderItems of an Order are the snapshot of its transaction, item
\* for item, with the snapshot's price.
C16_OrderItemsAreSnapshot ==
    \A i \in 1..Len(orders) :
        LET snap == transactions[orders[i].payment_transaction_id].snapshot
            items == orders[i].items
        IN /\ Len(items) = Len(snap)
           /\ \A k \in 1..Len(snap) :
                 /\ items[k].artwork_id = snap[k].artwork_id
                 /\ items[k].quantity = snap[k].quantity
                 /\ PriceStr(items[k].price_at_purchase)
                        = snap[k].price_at_purchase

\* An OrderItem whose price is no longer the artwork's live price.
C16_Witness ==
    \E i \in 1..Len(orders) : \E k \in 1..Len(orders[i].items) :
        orders[i].items[k].price_at_purchase
            # price[orders[i].items[k].artwork_id]

\* C17: every invocation of the callback handler that has returned has
\* returned the fixed success acknowledgement.
C17_AlwaysAcknowledged ==
    \A p \in Procs : procs[p].pc = "done" => procs[p].resp = "ack"

\* C18: a checkout request that meets a rejection condition (empty cart,
\* inactive artwork or artist, insufficient stock, missing or inactive
\* delivery option, total <= 0) writes no PaymentTransaction row: every step
\* that adds a row is for a request that met none of them, and changes
\* neither the earlier rows, nor stock, nor cart.
CartTotal(u) ==
    LET lines == CHOOSE o \in Perms(CartLines(u)) : TRUE
    IN SeqSum([k \in 1..Len(lines) |-> price[lines[k]] * cart[u][lines[k]]])

CheckoutRejected(u, option) ==
    \/ CartLines(u) = {}
    \/ option \notin DeliveryOptions
    \/ ~delivery.active
    \/ \E a \in CartLines(u) :
          ~is_active[a] \/ ~artist_active[a] \/ stock[a] < cart[u][a]
    \/ CartTotal(u) + delivery.price <= 0

C18_RejectedCheckoutWritesNothing ==
    [][Len(transactions') # Len(transactions) =>
          /\ Len(transactions') = Len(transactions) + 1
          /\ SubSeq(transactions', 1, Len(transactions)) = transactions
          /\ LET row == transactions'[Len(transactions')]
             IN ~CheckoutRejected(row.user_id, row.selected_delivery_option_id)
          /\ UNCHANGED <<stock, cart>>]_vars

\* With one transaction on record, a cart of purchasable lines costs nothing,
\* and another holds an active artwork in stock whose artist is inactive.
C18_Witness ==
    /\ Len(transactions) = 1
    /\ \E u \in Users :
          /\ CartLines(u) # {}
          /\ delivery.active
          /\ CartTotal(u) + delivery.price <= 0
          /\ \E a \in CartLines(u) :
                is_active[a] /\ stock[a] >= cart[u][a] /\ ~artist_active[a]

\* C19: without admin stock edits, an artwork's seeded stock is its current
\* stock plus the quantities of all committed OrderItems for it.
QuantitySold(a) ==
    SeqSum([i \in 1..Len(orders) |->
              SeqSum([k \in 1..Len(orders[i].items) |->
                        IF orders[i].items[k].artwork_id = a
                        THEN orders[i].items[k].quantity ELSE 0])])

C19_StockAccounting ==
    \A a \in Artworks : InitStock(a) = stock[a] + QuantitySold(a)

\* Two Orders took units of one artwork and left none.
C19_Witness ==
    \E a \in Artworks : \E i, j \in 1..Len(orders) :
        /\ i # j
        /\ \E k \in 1..Len(orders[i].items) : orders[i].items[k].artwork_id = a
        /\ \E k \in 1..Len(orders[j].items) : orders[j].items[k].artwork_id = a
        /\ stock[a] = 0

\* C20: the commit of a materialization leaves the transaction's cart
\* without rows and every other cart as it was.
C20_CartCleared ==
    [][\A p \in Procs :
          (Stepped(p) /\ procs'[p].path = "materialized") =>
              LET c == transactions[procs[p].tx].cart_id
              IN /\ \A a \in Artworks : cart'[c][a] = 0
                 /\ \A u \in Users \ {c} : cart'[u] = cart[u]]_vars

\* The only Order so far emptied a cart that held a line added after its
\* snapshot (a later checkout of the same cart recorded it), while another
\* user's cart has lines.
C20_Witness ==
    \E t1, t2 \in TxIds :
        /\ t1 < t2
        /\ Len(orders) = 1 /\ orders[1].payment_transaction_id = t1
        /\ transactions[t2].cart_id = transactions[t1].cart_id
        /\ CartLines(transactions[t1].cart_id) = {}
        /\ \E a \in Artworks :
              SnapshotQuantity(t2, a) > 0 /\ SnapshotQuantity(t1, a) = 0
        /\ \E u \in Users \ {transactions[t1].cart_id} : CartLines(u) # {}

\* The calls into socket_events that a branch of DarajaCallback.post makes
\* before it returns.  payment.py imports nothing from socket_events, and
\* notify_new_order_to_admins has no caller in the application.
NotifyCalls(path) == {}

\* C21: an invocation that materialized an Order has emitted the new-order
\* event, one whose materialization failed has emitted the
\* materialization-failure event, and any other has emitted neither.
C21_EventsEmitted ==
    \A p \in Procs :
        procs[p].pc = "done" =>
            /\ procs[p].path = "materialized"
                   => "new_order_admin" \in NotifyCalls(procs[p].path)
            /\ procs[p].path = "materialize_failed"
                   => "materialization_failure" \in NotifyCalls(procs[p].path)
            /\ procs[p].path \notin {"materialized", "materialize_failed"}
                   => NotifyCalls(procs[p].path) = {}

\* Mutant: the status written before the failed commit stays in the store.
TxAfterRollback_StatusKept(p) ==
    [transactions EXCEPT ![procs[p].tx].status = "successful"]

\* The PaymentTransaction rows after db.session.rollback() of line 172: the
\* status set at line 152 was never committed.
TxAfterRollback(p) == transactions

\* db.session.commit() of line 154 raises (the store refused or lost the
\* transaction): `except Exception` rolls the whole unit back.
CbCommitFails(p) ==
    /\ procs[p].pc = "commit"
    /\ procs' = [procs EXCEPT ![p] =
                     RolledBack(p, "unexpected_order_creation_error")]
    /\ stock' = StockAfterRollback(p)
    /\ transactions' = TxAfterRollback(p)
    /\ UNCHANGED <<catalogue, cart, orders>>

\* db.session.commit() of lines 165 / 179 raises: rolled back and logged
\* (lines 168-170, 182-184), the transaction keeps its committed status.
CbRecoverFails(p) ==
    /\ procs[p].pc = "recover"
    /\ procs' = [procs EXCEPT ![p] = Done(p, "recover_failed")]
    /\ UNCHANGED <<stock, catalogue, cart, transactions, orders>>

\* The materialization against a store whose commits can fail; every
\* callback reports a paid-in-full success.
NextCommitFaults ==
    \/ \E u \in Buyers, a \in Artworks, q \in 1..MaxStock : CartAdd(u, a, q)
    \/ \E u \in Buyers, option \in OptionIds :
          \E order \in Perms(CartLines(u)) : InitiateCheckout(u, order, option)
    \/ \E t \in TxIds, d \in Descs : GatewayRespond(t, "accepted", d)
    \/ \E p \in Procs : \E m \in PaidInFull : CbBegin(p, m)
    \/ \E p \in Procs : CbFlush(p)
    \/ \E p \in Procs : CbItem(p)
    \/ \E p \in Procs : CbCommit(p)
    \/ \E p \in Procs : CbCommitFails(p)
    \/ \E p \in Procs : CbDeadlock(p)
    \/ \E p \in Procs : CbRecover(p)
    \/ \E p \in Procs : CbRecoverFails(p)

SpecCommitFaults == Init /\ [][NextCommitFaults]_vars

\* PaymentStatus.get for the owner of transaction t: the committed status,
\* and the order id when the status is successful and an Order references
\* the transaction.
PaymentStatusGet(t) ==
    [status |-> transactions[t].status,
     has_order_id |-> transactions[t].status = "successful" /\ OrdersOf(t) # {}]

\* C22: whoever reads a transaction as successful, a status poll or another
\* callback, finds its Order committed with its items; a commit that failed
\* leaves no transaction successful without its Order.
C22_SuccessfulOnlyWithOrder ==
    \A t \in TxIds :
        PaymentStatusGet(t).status = "successful" =>
            /\ PaymentStatusGet(t).has_order_id
            /\ \A i \in OrdersOf(t) :
                  Len(orders[i].items) = Len(transactions[t].snapshot)

\* One transaction is successful with its Order while the commit of another
\* transaction's materialization has just failed.
C22_Witness ==
    \E p, q \in Procs :
        /\ procs[q].path = "materialized"
        /\ PaymentStatusGet(procs[q].tx).has_order_id
        /\ procs[p].pc = "recover"
        /\ procs[p].new_desc = "unexpected_order_creation_error"
        /\ procs[p].tx # procs[q].tx
        /\ OrdersOf(procs[p].tx) = {}
        /\ transactions[procs[p].tx].status = "pending_confirmation"

\* C23: every Order carries the delivery option and the delivery fee locked
\* on its transaction at initiation.
C23_OrderDeliveryFields ==
    \A i \in 1..Len(orders) :
        LET row == transactions[orders[i].payment_transaction_id]
        IN /\ orders[i].delivery_option_id = row.selected_delivery_option_id
           /\ orders[i].delivery_fee = row.applied_delivery_fee

\* C24: a callback with a non-success result code is acknowledged, creates
\* no Order and changes no stock and no cart; its commit stores
\* cancelled_by_user for codes 1 and 1032, failed_timeout for 1037 and
\* failed_daraja for any other or absent code, with the gateway's description.
ReportsFailure(r) ==
    /\ r.tx # NoTx
    /\ r.m.shape = "ok" /\ r.m.code # "0"

C24_FailureCodesMapped ==
    [][\A p \in Procs :
          Stepped(p) =>
              /\ ReportsFailure(procs'[p]) => procs'[p].pc = "commit_status"
              /\ ReportsFailure(procs[p]) =>
                    /\ procs'[p].pc = "done"
                    /\ procs'[p].resp = "ack"
                    /\ UNCHANGED <<orders, stock, cart>>
                    /\ procs'[p].path = "status" =>
                          LET code == procs[p].m.code
                              row == transactions'[procs[p].tx]
                          IN /\ code \in {"1", "1032"}
                                    => row.status = "cancelled_by_user"
                             /\ code = "1037" => row.status = "failed_timeout"
                             /\ code \notin {"1", "1032", "1037"}
                                    => row.status = "failed_daraja"
                             /\ row.daraja_response_description
                                    = procs[p].m.desc]_vars

\* A timed-out transaction is on record while a callback without a result
\* code is about to be stored for another.
C24_Witness ==
    \E p \in Procs : \E t \in TxIds :
        /\ transactions[t].status = "failed_timeout"
        /\ ReportsFailure(procs[p])
        /\ procs[p].m.code = "-1"
        /\ procs[p].new_status = "failed_daraja"
        /\ procs[p].tx # t

\* The pipeline while the admin deactivates artists and artworks, reactivates
\* and restocks them; every callback reports a paid-in-full success.
NextDeactivation ==
    \/ \E u \in Buyers, a \in Artworks, q \in 1..MaxStock : CartAdd(u, a, q)
    \/ \E a \in Artworks : ArtistPatch(a, FALSE, FALSE)
    \/ \E a \in Artworks : ArtistPatch(a, TRUE, TRUE)
    \/ \E a \in Artworks : ArtworkBulk({a}, "deactivate")
    \/ \E a \in Artworks : ArtworkPatch(a, Keep, InitStock(a), "keep")
    \/ \E u \in Buyers, option \in OptionIds :
          \E order \in Perms(CartLines(u)) : InitiateCheckout(u, order, option)
    \/ \E t \in TxIds, d \in Descs : GatewayRespond(t, "accepted", d)
    \/ \E p \in Procs : \E m \in PaidInFull : CbBegin(p, m)
    \/ \E p \in Procs : CbFlush(p)
    \/ \E p \in Procs : CbItem(p)
    \/ \E p \in Procs : CbCommit(p)
    \/ \E p \in Procs : CbDeadlock(p)
    \/ \E p \in Procs : CbRecover(p)

SpecDeactivation == Init /\ [][NextDeactivation]_vars

\* The artworks of the snapshot of transaction t.
SnapshotArtworks(t) ==
    {transactions[t].snapshot[k].artwork_id :
        k \in 1..Len(transactions[t].snapshot)}

AmountForDaraja(cents) ==
    LET whole == cents \div 100
        frac == cents % 100
    IN IF frac < 50 THEN whole
       ELSE IF frac > 50 THEN whole + 1
       ELSE IF whole % 2 = 0 THEN whole ELSE whole + 1

\* Success callbacks with a receipt that report the integer amount the push
\* asked for.
PaidAsSent ==
    {Payload("ok", c, "0", d, r, TRUE, 100 * AmountForDaraja(FullAmount(c))) :
        c \in 1..MaxTx, d \in ResultDescs, r \in Receipts}

\* The pipeline while the admin reprices artworks; every callback reports
\* the amount the gateway was asked to collect.
NextRounding ==
    \/ \E u \in Buyers, a \in Artworks, q \in 1..MaxStock : CartAdd(u, a, q)
    \/ \E a \in Artworks : ArtworkPatch(a, RaisedPrice(a), Keep, "keep")
    \/ \E u \in Buyers, option \in OptionIds :
          \E order \in Perms(CartLines(u)) : InitiateCheckout(u, order, option)
    \/ \E t \in TxIds, d \in Descs : GatewayRespond(t, "accepted", d)
    \/ \E p \in Procs : \E m \in PaidAsSent : CbBegin(p, m)
    \/ \E p \in Procs : CbCommitStatus(p)
    \/ \E p \in Procs : CbFlush(p)
    \/ \E p \in Procs : CbItem(p)
    \/ \E p \in Procs : CbCommit(p)
    \/ \E p \in Procs : CbDeadlock(p)
    \/ \E p \in Procs : CbRecover(p)

SpecRounding == Init /\ [][NextRounding]_vars

\* C26: a success callback with a receipt that reports the integer amount
\* sent to the gateway at initiation is never taken for an underpayment,
\* whatever the fractional part of the transaction's total.
ReportsAmountSent(r) ==
    /\ r.tx # NoTx
    /\ r.m.shape = "ok" /\ r.m.code = "0" /\ r.m.receipt # "" /\ r.m.parses
    /\ r.m.amount = 100 * AmountForDaraja(transactions[r.tx].amount)

C26_AmountSentIsEnough ==
    \A p \in Procs :
        ReportsAmountSent(procs[p]) => procs[p].new_status # "failed_underpaid"

\* Mutant: checkout_request_id has no unique index.
CridFree_NoIndex(t, c) == TRUE

\* unique=True of PaymentTransaction.checkout_request_id: the UPDATE of row t
\* to id c goes through when no other row holds c (NULLs do not collide).
CridFree(t, c) ==
    \A x \in TxIds \ {t} : transactions[x].checkout_request_id # c

\* OrderList.post after the gateway accepted the push and returned the
\* CheckoutRequestID c, whichever it is (lines 154-157).  A commit refused
\* by the unique index leaves the handler with an exception and the row as
\* it was.
GatewayAccept(t, c, d) ==
    /\ t \in TxIds
    /\ transactions[t].status = "pending_stk_initiation"
    /\ c # NoCrid
    /\ IF CridFree(t, c)
       THEN transactions' =
              [transactions EXCEPT ![t] =
                  [@ EXCEPT !.status = "pending_confirmation",
                            !.checkout_request_id = c,
                            !.daraja_response_description = d]]
       ELSE UNCHANGED transactions
    /\ UNCHANGED <<stock, catalogue, cart, orders, procs>>

\* Callbacks for any id: the failure codes, and successes with a receipt
\* that report at least the total of every transaction on record.
AnyId ==
    {Payload("ok", c, code, d, "", TRUE, 0) :
        c \in 1..MaxTx, code \in ResultCodes \ {"0"}, d \in ResultDescs}
    \cup {Payload("ok", c, "0", d, r, TRUE,
                  SeqSum([t \in TxIds |-> transactions[t].amount])) :
            c \in 1..MaxTx, d \in ResultDescs, r \in Receipts}

\* The pipeline with a gateway that answers a push in any way and hands out
\* ids of its own choosing.
NextIds ==
    \/ \E u \in Buyers, a \in Artworks, q \in 1..MaxStock : CartAdd(u, a, q)
    \/ \E u \in Buyers, option \in OptionIds :
          \E order \in Perms(CartLines(u)) : InitiateCheckout(u, order, option)
    \/ \E t \in TxIds, o \in {"rejected", "no_id"}, d \in Descs :
          GatewayRespond(t, o, d)
    \/ \E t \in TxIds, c \in 1..MaxTx, d \in Descs : GatewayAccept(t, c, d)
    \/ \E p \in Procs : \E m \in AnyId : CbBegin(p, m)
    \/ \E p \in Procs : CbCommitStatus(p)
    \/ \E p \in Procs : CbFlush(p)
    \/ \E p \in Procs : CbItem(p)
    \/ \E p \in Procs : CbCommit(p)
    \/ \E p \in Procs : CbDeadlock(p)
    \/ \E p \in Procs : CbRecover(p)

SpecIds == Init /\ [][NextIds]_vars

\* C27: a transaction holds a correlation id exactly when its status is
\* pending_confirmation or a terminal state of the callback phase; one that
\* is pending_stk_initiation or failed_stk_initiation holds none and is the
\* transaction of no callback invocation; no two transactions hold the same
\* id.
C27_CorrelationId ==
    /\ \A t \in TxIds :
          /\ transactions[t].checkout_request_id # NoCrid
                <=> transactions[t].status
                        \in {"pending_confirmation"} \cup final_states
          /\ transactions[t].status
                 \in {"pending_stk_initiation", "failed_stk_initiation"}
                => /\ transactions[t].checkout_request_id = NoCrid
                   /\ \A p \in Procs : procs[p].tx # t
    /\ \A t1, t2 \in TxIds :
          (t1 # t2 /\ transactions[t1].checkout_request_id # NoCrid)
              => transactions[t1].checkout_request_id
                     # transactions[t2].checkout_request_id

\* One transaction got an id and reached a terminal state through its
\* callback; the push of the other was rejected, and a callback carrying
\* the id the gateway did not hand out found no transaction.
C27_Witness ==
    \E t1, t2 \in TxIds : \E p \in Procs :
        /\ transactions[t1].checkout_request_id = t2
        /\ t1 # t2
        /\ transactions[t1].status \in final_states
        /\ transactions[t2].status = "failed_stk_initiation"
        /\ procs[p].path = "unmatched"
        /\ procs[p].crid = t1

\* The pipeline for users who fill their cart and then leave it alone: no
\* line is added once a checkout has been initiated.  Every callback reports
\* a paid-in-full success.
NextSameCart ==
    \/ \E u \in Buyers, a \in Artworks, q \in 1..MaxStock :
          transactions = <<>> /\ CartAdd(u, a, q)
    \/ \E u \in Buyers, option \in OptionIds :
          \E order \in Perms(CartLines(u)) : InitiateCheckout(u, order, option)
    \/ \E t \in TxIds, d \in Descs : GatewayRespond(t, "accepted", d)
    \/ \E p \in Procs : \E m \in PaidInFull : CbBegin(p, m)
    \/ \E p \in Procs : CbFlush(p)
    \/ \E p \in Procs : CbItem(p)
    \/ \E p \in Procs : CbCommit(p)
    \/ \E p \in Procs : CbDeadlock(p)
    \/ \E p \in Procs : CbRecover(p)

SpecSameCart == Init /\ [][NextSameCart]_vars

\* C28: of two transactions a user initiated from the same unchanged cart,
\* at most one has an Order.
C28_OneOrderPerCart ==
    \A t1, t2 \in TxIds :
        (/\ t1 # t2
         /\ transactions[t1].user_id = transactions[t2].user_id
         /\ transactions[t1].cart_id = transactions[t2].cart_id
         /\ SnapshotArtworks(t1) = SnapshotArtworks(t2)
         /\ \A a \in Artworks : SnapshotQuantity(t1, a) = SnapshotQuantity(t2, a))
            => ~(OrdersOf(t1) # {} /\ OrdersOf(t2) # {})

\* The values an admin form sends for stock_quantity and is_active.
StockForms(a) == {Keep, 0, InitStock(a)}
ActiveForms == {"keep", "true", "false"}

\* The catalogue under administration, without customers: artworks are
\* deleted, created, updated, activated and deactivated in bulk, artists are
\* deactivated and reactivated with or without their artworks.
NextAdmin ==
    \/ \E a \in Artworks : ArtworkDelete(a)
    \/ \E a \in Artworks : \E s \in StockForms(a), f \in ActiveForms :
          ArtworkCreate(a, s, f)
    \/ \E a \in Artworks : \E s \in StockForms(a), f \in ActiveForms :
          \E new_price \in {Keep, RaisedPrice(a)} :
              ArtworkPatch(a, new_price, s, f)
    \/ \E ids \in SUBSET Artworks, action \in {"activate", "deactivate"} :
          ArtworkBulk(ids, action)
    \/ \E a \in Artworks, new_active \in BOOLEAN, reactivate \in BOOLEAN :
          ArtistPatch(a, new_active, reactivate)

SpecAdmin == Init /\ [][NextAdmin]_vars

\* C29: every artwork on sale belongs to an active artist.
C29_ActiveArtworkHasActiveArtist ==
    \A a \in Artworks : (exists[a] /\ is_active[a]) => artist_active[a]

\* The artworks the admin works on while customers are buying.
Administered == {"a2"}

\* The pipeline next to a catalogue under administration: the admin deletes,
\* creates, updates, activates and deactivates artworks and their artists
\* while users check out; every callback reports a paid-in-full success.
NextShop ==
    \/ \E a \in Administered : ArtworkDelete(a)
    \/ \E a \in Administered : \E s \in StockForms(a), f \in ActiveForms :
          ArtworkCreate(a, s, f)
    \/ \E a \in Administered : \E s \in StockForms(a), f \in ActiveForms :
          ArtworkPatch(a, Keep, s, f)
    \/ \E action \in {"activate", "deactivate"} :
          ArtworkBulk(Administered, action)
    \/ \E a \in Administered, new_active \in BOOLEAN, reactivate \in BOOLEAN :
          ArtistPatch(a, new_active, reactivate)
    \/ \E u \in Buyers, a \in Artworks, q \in 1..MaxStock : CartAdd(u, a, q)
    \/ \E u \in Buyers, option \in OptionIds :
          \E order \in Perms(CartLines(u)) : InitiateCheckout(u, order, option)
    \/ \E t \in TxIds, d \in Descs : GatewayRespond(t, "accepted", d)
    \/ \E p \in Procs : \E m \in PaidInFull : CbBegin(p, m)
    \/ \E p \in Procs : CbFlush(p)
    \/ \E p \in Procs : CbItem(p)
    \/ \E p \in Procs : CbCommit(p)
    \/ \E p \in Procs : CbDeadlock(p)
    \/ \E p \in Procs : CbRecover(p)

SpecShop == Init /\ [][NextShop]_vars

====
